---- MODULE Spec2Model ----
(***************************************************************************)
(* DingTalk <-> A2A bridge: the per-user client pool, the idle sweep, the  *)
(* command handlers and the content dispatch of src/main.py, with the      *)
(* backend client of src/a2a_client.py and the preference store of         *)
(* src/db_manager.py.                                                      *)
(*                                                                         *)
(* The program runs on one asyncio event loop: code between two awaits is  *)
(* atomic, and every await (client.close(), session.post(), sender sends,  *)
(* asyncio.sleep) is a point where any other task may run.  Each action    *)
(* below is one such atomic segment of one task.                           *)
(***************************************************************************)
EXTENDS Integers, Sequences, FiniteSets, TLC

\* ------------------------------------------------------------------ bounds
MaxTasks == 2      \* per-message units of work alive at the same time
MaxClients == 3    \* A2AClient objects constructed in one run
MaxTime == 2       \* readings of time.time(), in units of the idle timeout
MaxLen == 12       \* characters of a text handed to send_long_text
MaxDraws == 4      \* values drawn from uuid.uuid4()
MaxCeiling == 4    \* max_length of a direct call of send_long_text

\* ------------------------------------------------------------ text values
\* Texts are sequences of one-character strings, so that startswith, rstrip,
\* strip, split and lower are computed, not assumed.
Url_a == <<"h","t","t","p",":","/","/","a","/">>
Url_ftp == <<"f","t","p",":","/","/","x">>
HttpPrefix == <<"h","t","t","p",":","/","/">>
HttpsPrefix == <<"h","t","t","p","s",":","/","/">>

default_a2a_server_url == <<"h","t","t","p",":","/","/","d">>
client_inactive_timeout == 1

Users == {"u1", "u2"}
Slots == 1..MaxTasks

Txt_content == <<"h","i">>
Txt_help == <<"/","h","e","l","p">>
Txt_HELP == <<"/","H","e","l","p">>
Txt_server == <<"/","s","e","r","v","e","r">>
Txt_setserver == <<"/","s","e","t","s","e","r","v","e","r">>
Txt_resetserver == <<"/","r","e","s","e","t","s","e","r","v","e","r">>
Txt_unknown == <<"/","x">>

\* The texts of the inbound events the model draws from.
Inbound ==
    { Txt_content,
      Txt_HELP,
      Txt_server,
      Txt_unknown,
      Txt_setserver,
      Txt_setserver \o <<" ">> \o Url_a,
      Txt_setserver \o <<" ">> \o Url_ftp,
      Txt_resetserver \o <<" ">> }

\* --------------------------------------------------------- str operations
IsSpace(c) == c \in {" ", "\t", "\n"}

RECURSIVE LStrip(_)
LStrip(s) == IF s # <<>> /\ IsSpace(Head(s)) THEN LStrip(Tail(s)) ELSE s

RECURSIVE RStripSpace(_)
RStripSpace(s) ==
    IF s # <<>> /\ IsSpace(s[Len(s)])
    THEN RStripSpace(SubSeq(s, 1, Len(s) - 1))
    ELSE s

\* str.strip()
Strip(s) == RStripSpace(LStrip(s))

\* str.startswith(p)
StartsWith(s, p) == Len(s) >= Len(p) /\ SubSeq(s, 1, Len(p)) = p

\* str.rstrip('/')
RECURSIVE RstripSlash(_)
RstripSlash(s) ==
    IF s # <<>> /\ s[Len(s)] = "/"
    THEN RstripSlash(SubSeq(s, 1, Len(s) - 1))
    ELSE s

\* str.split(): the whitespace-delimited tokens of s, in order.
RECURSIVE SplitFrom(_, _, _)
SplitFrom(s, cur, acc) ==
    IF s = <<>>
    THEN IF cur = <<>> THEN acc ELSE Append(acc, cur)
    ELSE IF IsSpace(Head(s))
         THEN SplitFrom(Tail(s), <<>>, IF cur = <<>> THEN acc ELSE Append(acc, cur))
         ELSE SplitFrom(Tail(s), Append(cur, Head(s)), acc)

Split(s) == SplitFrom(s, <<>>, <<>>)

LowerChar(c) ==
    CASE c = "H" -> "h"
      [] c = "S" -> "s"
      [] c = "X" -> "x"
      [] OTHER -> c

\* str.lower()
Lower(s) == [i \in 1..Len(s) |-> LowerChar(s[i])]


\* ------------------------------------------------------------------ state
VARIABLES
    user_a2a_clients,   \* the pool: entries in dict insertion order
    clients,            \* every A2AClient constructed so far, by identity
    prefs,              \* the preference store: user -> a2a_server_url
    session_mapping,    \* user -> session id
    now,                \* time.time()
    tasks,              \* the per-message units of work (handle_text_message)
    sweep,              \* the background task cleanup_inactive_clients_task
    transport,          \* the last callback and what process returned for it
    health,             \* startup's health probe and what check_health returned
    drawn,              \* the values uuid.uuid4() has returned
    shutdown            \* the coroutine DingTalkA2AClient.close

vars == <<user_a2a_clients, clients, prefs, session_mapping, now, tasks, sweep,
          transport, health, drawn, shutdown>>

NoPref == <<>>
NoSession == <<>>
NoClient == 0

\* ------------------------------------------------------- A2AClient objects
\* A2AClient.__init__: the url is stored without trailing slashes and a new
\* aiohttp session is opened.
A2AClient(url) == [url |-> RstripSlash(url), state |-> "open"]

\* The first half of "await client.close()": the close is started and the
\* caller is suspended.
CloseStart(cs, c) == [cs EXCEPT ![c].state = IF @ = "open" THEN "closing" ELSE @]

\* The second half: the session is closed and the caller resumes.
CloseEnd(cs, c) == [cs EXCEPT ![c].state = "closed"]

\* ------------------------------------------------------------ dict access
PoolHas(p, u) == \E k \in 1..Len(p) : p[k].user = u

PoolGet(p, u) == p[CHOOSE k \in 1..Len(p) : p[k].user = u]

\* self.user_a2a_clients[u] = (c, t): an existing key keeps its place.
PoolPut(p, u, c, t) ==
    LET e == [user |-> u, client |-> c, last_active |-> t]
    IN IF PoolHas(p, u)
       THEN [k \in 1..Len(p) |-> IF p[k].user = u THEN e ELSE p[k]]
       ELSE Append(p, e)

\* del self.user_a2a_clients[u]
PoolDel(p, u) == SelectSeq(p, LAMBDA e : e.user # u)

\* --------------------------------------------------------- DBManager
\* A lookup that never finds the stored key.
get_user_key_IgnoresStored(u, default) == default

\* get_user_key(user_id, 'a2a_server_url', default): config.get(key, default).
get_user_key(u, default) == IF prefs[u] = NoPref THEN default ELSE prefs[u]

\* ------------------------------------------------------------------ tasks
NoError == [code |-> 0, message |-> <<>>]
NoResult == [state |-> "none", message |-> <<>>, has_message |-> FALSE, artifacts |-> <<>>]

\* What the backend did with one request: the connection (ok, a client error,
\* a timeout), the HTTP status, the kind of body and, for a body that decodes
\* to a SendTaskResponse, that response.
NoResponse == [error |-> NoError, result |-> NoResult]
NoOutcome == [net |-> "none", status |-> 0, body |-> "none", response |-> NoResponse]

IdleTask ==
    [pc |-> "idle", user |-> "u1", text |-> <<>>, client |-> NoClient,
     acq |-> "none", exc |-> "none", url |-> <<>>, units |-> <<>>, sent |-> <<>>,
     outcome |-> NoOutcome, max_length |-> 0,
     session_id |-> NoSession, task_id |-> NoSession, pauses |-> <<>>]

NoPass == [active |-> FALSE, pool |-> <<>>, time |-> 0, quiet |-> TRUE]

\* callback.data.  A value that should be a str is written as a tagged record:
\* the key is absent, or it holds a str, or it holds something else (None, a
\* number).  "text" is absent, a dict with the key "content", or no dict.
\* senderStaffId, conversationId and conversationType are strings, "" standing
\* for every falsy value (key absent, None, '').
Absent == [tag |-> "absent", val |-> <<>>]
NonStr == [tag |-> "other", val |-> <<>>]
StrVal(s) == [tag |-> "str", val |-> s]

NoData ==
    [is_dict |-> FALSE, has_text |-> FALSE, text_is_dict |-> FALSE, content |-> Absent,
     has_sender |-> FALSE, senderStaffId |-> "", conversationId |-> "",
     conversationType |-> ""]

NoAck == <<"none", "none">>

\* No callback was delivered yet.
NoCallback == [data |-> NoData, ack |-> NoAck, exc |-> "none"]

\* startup has not probed the backend yet.
NoHealth == [outcome |-> NoOutcome, is_healthy |-> FALSE, exc |-> "none"]

\* close has not been called.  Once it iterates over the pool, size is the
\* length the dict iterator expects and pos the number of entries it has
\* passed.
NotClosing == [pc |-> "idle", pos |-> 0, size |-> 0, closing |-> NoClient, exc |-> "none"]

SweepAsleep == [pc |-> "sleep", todo |-> <<>>, closing |-> NoClient, pass |-> NoPass]

Init ==
    /\ user_a2a_clients = <<>>
    /\ clients = <<>>
    /\ prefs = [u \in Users |-> NoPref]
    /\ session_mapping = [u \in Users |-> NoSession]
    /\ now = 0
    /\ tasks = [i \in Slots |-> IdleTask]
    /\ sweep = SweepAsleep
    /\ transport = NoCallback
    /\ health = NoHealth
    /\ drawn = {}
    /\ shutdown = NotClosing

\* ------------------------------------------------------------------- time
Tick ==
    /\ now < MaxTime
    /\ now' = now + 1
    /\ UNCHANGED <<user_a2a_clients, clients, prefs, session_mapping, tasks, sweep,
                    transport, health, drawn, shutdown>>

\* A pool operation of a foreground task that runs while a sweep pass is
\* suspended in a close is concurrent with that pass.
Disturbed == [sweep EXCEPT !.pass.quiet = IF sweep.pass.active THEN FALSE ELSE @]

\* ------------------------------------------------- cleanup_inactive_clients
\* The keys the first loop of cleanup_inactive_clients collects, in dict order.
clients_to_remove(p, current_time) ==
    LET stale == SelectSeq(p, LAMBDA e : current_time - e.last_active > client_inactive_timeout)
    IN [k \in 1..Len(stale) |-> stale[k].user]

\* asyncio.sleep(cleanup_interval) returns; cleanup_inactive_clients runs up to
\* its first "await client.close()", or to its end when nothing is stale.
SweepWake ==
    /\ sweep.pc = "sleep"
    /\ LET todo == clients_to_remove(user_a2a_clients, now)
       IN IF todo = <<>>
          THEN /\ sweep' = SweepAsleep
               /\ UNCHANGED clients
          ELSE LET c == PoolGet(user_a2a_clients, Head(todo)).client
               IN /\ sweep' = [pc |-> "closing", todo |-> todo, closing |-> c,
                               pass |-> [active |-> TRUE, pool |-> user_a2a_clients,
                                         time |-> now, quiet |-> TRUE]]
                  /\ clients' = CloseStart(clients, c)
    /\ UNCHANGED <<user_a2a_clients, prefs, session_mapping, now, tasks, transport, health, drawn,
                   shutdown>>

\* A dict iterator keeps its place among the entries that remain when a key
\* is deleted: an iterator that has passed the entry of u has passed one
\* entry less of the dict without it.
IteratorAfterDel(it, p, u) ==
    IF it.pc = "user" /\ \E k \in 1..it.pos : k <= Len(p) /\ p[k].user = u
    THEN [it EXCEPT !.pos = @ - 1]
    ELSE it

\* "await client.close()" returns in the second loop: the entry is deleted and
\* the loop goes on to the next key, up to its next close or to the end.
SweepCloseReturns ==
    /\ sweep.pc = "closing"
    /\ LET p1 == PoolDel(user_a2a_clients, Head(sweep.todo))
           rest == Tail(sweep.todo)
           closed == CloseEnd(clients, sweep.closing)
       IN /\ user_a2a_clients' = p1
          /\ shutdown' = IteratorAfterDel(shutdown, user_a2a_clients, Head(sweep.todo))
          /\ IF rest = <<>>
             THEN /\ clients' = closed
                  /\ sweep' = SweepAsleep
             ELSE LET c == PoolGet(p1, Head(rest)).client
                  IN /\ clients' = CloseStart(closed, c)
                     /\ sweep' = [sweep EXCEPT !.todo = rest, !.closing = c]
    /\ UNCHANGED <<prefs, session_mapping, now, tasks, transport, health, drawn>>

\* "await client.close()" raises: the exception leaves cleanup_inactive_clients,
\* cleanup_inactive_clients_task logs it and sleeps again.
SweepCloseRaises ==
    /\ sweep.pc = "closing"
    /\ sweep' = SweepAsleep
    /\ UNCHANGED <<user_a2a_clients, clients, prefs, session_mapping, now, tasks,
                   transport, health, drawn, shutdown>>


\* ------------------------------------------------------ Response Interpreter

\* A str | None field is truthy when it holds a non-empty str.
Truthy(v) == v.tag = "str" /\ v.val # <<>>

\* Parts as the backend sends them; name is "" when absent, bytes and uri are
\* absent, or hold a str.
TextPart(t) == [type |-> "text", text |-> t, name |-> <<>>, bytes |-> Absent, uri |-> Absent]
FilePart(n, b, u) == [type |-> "file", text |-> <<>>, name |-> n, bytes |-> b, uri |-> u]
DataPart(json) == [type |-> "data", text |-> json, name |-> <<>>, bytes |-> Absent, uri |-> Absent]

\* FileContent.check_content, the validator run when a FileContent is
\* constructed: what it raises, or "ok".
check_content(bytes, uri) ==
    IF ~(Truthy(bytes) \/ Truthy(uri)) THEN "ValueError"
    ELSE IF Truthy(bytes) /\ Truthy(uri) THEN "ValueError"
    ELSE "ok"

max_length == 2000
DataPreviewLen == 100

Take(s, n) == SubSeq(s, 1, IF Len(s) < n THEN Len(s) ELSE n)

Digit(d) == <<"0","1","2","3","4","5","6","7","8","9">>[d + 1]

\* str(n) for n >= 0
RECURSIVE Str(_)
Str(n) == IF n < 10 THEN <<Digit(n)>> ELSE Append(Str(n \div 10), Digit(n % 10))

\* text[n:]
Drop(s, n) == SubSeq(s, n + 1, Len(s))

\* The first loop of send_long_text: text[i:i+max_length] for i in
\* range(0, len(text), max_length).
RECURSIVE SliceAll(_, _)
SliceAll(text, ceiling) ==
    IF text = <<>>
    THEN <<>>
    ELSE <<Take(text, ceiling)>> \o SliceAll(Drop(text, ceiling), ceiling)

\* f"[{i}/{n}]\n"
Label(i, n) == <<"[">> \o Str(i) \o <<"/">> \o Str(n) \o <<"]", "\n">>

\* A chunker that sends only the full slices.
send_long_text_FullSlicesOnly(text, ceiling) ==
    IF Len(text) <= ceiling
    THEN <<text>>
    ELSE LET parts == SelectSeq(SliceAll(text, ceiling), LAMBDA q : Len(q) = ceiling)
         IN [i \in 1..Len(parts) |-> Label(i, Len(parts)) \o parts[i]]

\* send_long_text: the texts it sends, in order.
send_long_text(text, ceiling) ==
    IF Len(text) <= ceiling
    THEN <<text>>
    ELSE LET parts == SliceAll(text, ceiling)
         IN [i \in 1..Len(parts) |-> Label(i, Len(parts)) \o parts[i]]

\* send_long_text: for each of its sends, whether asyncio.sleep follows it.
\* The sleep is in the loop over the slices only.
send_long_text_sleeps(text, ceiling) ==
    IF Len(text) <= ceiling
    THEN <<FALSE>>
    ELSE [i \in 1..Len(SliceAll(text, ceiling)) |-> TRUE]

\* The sends of one part of an artifact of a completed task.
PartUnits(part) ==
    CASE part.type = "text" ->
            LET ts == send_long_text(part.text, max_length)
            IN [k \in 1..Len(ts) |-> <<"text", ts[k]>>]
      [] part.type = "data" -> << <<"data_summary", Take(part.text, DataPreviewLen)>> >>
      [] part.type = "file" ->
            << <<"file_info", part.name,
                 IF Truthy(part.uri) THEN part.uri.val ELSE <<>> >> >>
      [] OTHER -> <<>>

\* An interpreter that skips the parts that are not text.
PartsUnits_TextPartsOnly(parts) ==
    LET ts == SelectSeq(parts, LAMBDA q : q.type = "text")
    IN [k \in 1..Len(ts) |-> <<"text", ts[k].text>>]

\* The sends of the parts of one artifact, part after part.
RECURSIVE PartsUnits(_)
PartsUnits(parts) ==
    IF parts = <<>> THEN <<>> ELSE PartUnits(Head(parts)) \o PartsUnits(Tail(parts))

RECURSIVE ArtifactsUnits(_)
ArtifactsUnits(artifacts) ==
    IF artifacts = <<>>
    THEN <<>>
    ELSE PartsUnits(Head(artifacts)) \o ArtifactsUnits(Tail(artifacts))

\* An interpreter that takes the text field of every part, whatever its type.
TextsOf_EveryPart(parts) ==
    [k \in 1..Len(parts) |-> parts[k].text]

\* The texts of the text parts of parts, in order.
TextsOf(parts) ==
    LET ts == SelectSeq(parts, LAMBDA q : q.type = "text")
    IN [k \in 1..Len(ts) |-> ts[k].text]

\* process_a2a_response below the error and empty-result checks: the sends
\* for the state of the task.
render_result(result) ==
    CASE result.state = "completed" ->
           IF result.artifacts = <<>>
           THEN << <<"completed_no_content">> >>
           ELSE ArtifactsUnits(result.artifacts)
      [] result.state = "input-required" ->
           IF result.has_message /\ result.message # <<>>
           THEN LET ts == TextsOf(result.message)
                IN [k \in 1..Len(ts) |-> <<"text", ts[k]>>]
           ELSE << <<"need_more_information">> >>
      [] OTHER ->
           << <<"task_status", result.state,
                IF result.has_message THEN TextsOf(result.message) ELSE <<>> >> >>

\* For each send of the parts of an artifact, whether asyncio.sleep follows
\* it: only send_long_text sleeps.
RECURSIVE PartsSleeps(_)
PartsSleeps(parts) ==
    IF parts = <<>>
    THEN <<>>
    ELSE (IF Head(parts).type = "text"
          THEN send_long_text_sleeps(Head(parts).text, max_length)
          ELSE [k \in 1..Len(PartUnits(Head(parts))) |-> FALSE])
         \o PartsSleeps(Tail(parts))

RECURSIVE ArtifactsSleeps(_)
ArtifactsSleeps(artifacts) ==
    IF artifacts = <<>>
    THEN <<>>
    ELSE PartsSleeps(Head(artifacts)) \o ArtifactsSleeps(Tail(artifacts))

\* An interpreter that reports the error object and goes on to the result.
process_a2a_response_NoStop(response) ==
    (IF response.error # NoError
     THEN << <<"error_object", response.error.code, response.error.message>> >>
     ELSE <<>>)
    \o (IF response.result = NoResult THEN <<>> ELSE render_result(response.result))

\* process_a2a_response: the texts it sends through the sender, in order.
process_a2a_response(response) ==
    IF response.error # NoError
    THEN << <<"error_object", response.error.code, response.error.message>> >>
    ELSE IF response.result = NoResult
    THEN << <<"empty_result">> >>
    ELSE render_result(response.result)

\* process_a2a_response: for each of its sends, whether asyncio.sleep follows
\* it before the next statement runs.  Every branch but the loop over the
\* artifacts awaits the sender and nothing else.
process_a2a_response_sleeps(response) ==
    IF /\ response.error = NoError
       /\ response.result # NoResult
       /\ response.result.state = "completed"
       /\ response.result.artifacts # <<>>
    THEN ArtifactsSleeps(response.result.artifacts)
    ELSE [k \in 1..Len(process_a2a_response(response)) |-> FALSE]

\* The backend responses the dispatch model draws from.
Responses ==
    { [error |-> [code |-> 400, message |-> <<"b","a","d">>], result |-> NoResult],
      [error |-> NoError,
       result |-> [state |-> "completed", message |-> <<>>, has_message |-> FALSE,
                   artifacts |-> << <<TextPart(<<"o","k">>), FilePart(<<"f">>, StrVal(<<"b">>), Absent)>> >>]],
      [error |-> NoError,
       result |-> [state |-> "input-required", has_message |-> TRUE,
                   message |-> <<DataPart(<<"{","}">>)>>, artifacts |-> <<>>]] }


\* --------------------------------------------------------- the task record
Free(i) == tasks[i].pc \in {"idle", "done", "crashed"}

\* The coroutine returns after sending msgs through the sender.
Finish(t, msgs) ==
    [t EXCEPT !.pc = "done", !.sent = @ \o msgs, !.client = NoClient,
              !.url = <<>>, !.units = <<>>, !.session_id = NoSession,
              !.task_id = NoSession]

\* The coroutine returns after an except clause logged exception e and sent msgs.
FinishExc(t, e, msgs) == Finish([t EXCEPT !.exc = e], msgs)

\* Exception e leaves handle_text_message: the task ends with it unhandled.
Crash(t, e) ==
    [t EXCEPT !.pc = "crashed", !.exc = e, !.client = NoClient, !.url = <<>>,
              !.units = <<>>, !.session_id = NoSession, !.task_id = NoSession]

\* ---------------------------------------------------- MessageHandler.process
\* The callback of a one-to-one text message raw from user u.
TextEvent(u, raw) ==
    [is_dict |-> TRUE, has_text |-> TRUE, text_is_dict |-> TRUE, content |-> StrVal(raw),
     has_sender |-> TRUE, senderStaffId |-> u, conversationId |-> "cid",
     conversationType |-> "1"]

Ack(reason) == <<"STATUS_OK", reason>>

Returned(reason) == [exc |-> "none", ack |-> Ack(reason), spawn |-> FALSE, text |-> <<>>]
Raised(e) == [exc |-> e, ack |-> NoAck, spawn |-> FALSE, text |-> <<>>]

\* The try block of process: what it returns, or the exception it raises.
process_try(data) ==
    IF ~data.is_dict
    THEN Raised("TypeError")                 \* 'text' not in data
    ELSE IF ~data.has_text \/ ~data.has_sender
    THEN Returned("ignore: not a text message")
    ELSE IF ~data.text_is_dict
    THEN Raised("AttributeError")            \* data.get('text', {}).get
    ELSE IF data.content.tag = "other"
    THEN Raised("AttributeError")            \* .strip()
    ELSE LET message_text ==
                 IF data.content.tag = "absent" THEN <<>> ELSE Strip(data.content.val)
         IN IF message_text = <<>> \/ data.senderStaffId = "" \/ data.conversationId = ""
            THEN Returned("ignore: missing fields")
            ELSE IF data.conversationType = "1"
            THEN [exc |-> "none", ack |-> Ack("success (processing started)"),
                  spawn |-> TRUE, text |-> message_text]
            ELSE Returned("ignore: only supporting 1-to-1 chat")

\* A process without its except clause.
process_NoExcept(data) == process_try(data)

\* process: the except clause answers every exception of the try block.
process(data) ==
    LET r == process_try(data)
    IN IF r.exc = "none" THEN r ELSE Returned("error during processing")

\* process runs for callback.data = data; asyncio.create_task only schedules
\* handle_text_message, which starts after process has returned.
Deliver(i, data) ==
    LET r == process(data)
    IN /\ IF r.spawn
          THEN /\ Free(i)
               /\ \A j \in 1..(i - 1) : ~Free(j)
               /\ tasks' = [tasks EXCEPT ![i] =
                              [IdleTask EXCEPT !.pc = "spawned",
                                               !.user = data.senderStaffId,
                                               !.text = r.text]]
          ELSE UNCHANGED tasks
       /\ UNCHANGED <<user_a2a_clients, clients, prefs, session_mapping, now, sweep, health, drawn,
                   shutdown>>

\* A one-to-one text event, what process returns for it left unrecorded.
Receive(i, senders, texts) ==
    /\ \E u \in senders, raw \in texts : Deliver(i, TextEvent(u, raw))
    /\ UNCHANGED transport

\* Any event, with what process returned (or raised) to the transport.
Callback(i, events) ==
    \E data \in events :
       /\ Deliver(i, data)
       /\ transport' = [data |-> data, ack |-> process(data).ack,
                        exc |-> process(data).exc]

\* ------------------------------------------------------------ handle_command
\* A lookup of the first token as it was typed.
Command_AsTyped(text) == Split(Strip(text))[1]

\* parts[0].lower() of command_text.strip().split()
Command(text) == Lower(Split(Strip(text))[1])
Args(text) == Tail(Split(Strip(text)))

command_handlers == {Txt_help, Txt_server, Txt_setserver, Txt_resetserver}

IsCommand(i, cmd) ==
    /\ tasks[i].pc = "spawned"
    /\ StartsWith(tasks[i].text, <<"/">>)
    /\ Command(tasks[i].text) = cmd

\* handle_help_command
CmdHelp(i) ==
    /\ IsCommand(i, Txt_help)
    /\ tasks' = [tasks EXCEPT ![i] = Finish(@, << <<"help">> >>)]
    /\ UNCHANGED <<user_a2a_clients, clients, prefs, session_mapping, now, sweep,
                   transport, health, drawn, shutdown>>

\* handle_command, the else branch
CmdUnknown(i) ==
    /\ tasks[i].pc = "spawned"
    /\ StartsWith(tasks[i].text, <<"/">>)
    /\ Command(tasks[i].text) \notin command_handlers
    /\ tasks' = [tasks EXCEPT ![i] =
                   Finish(@, << <<"unknown_command", Command(tasks[i].text)>> >>)]
    /\ UNCHANGED <<user_a2a_clients, clients, prefs, session_mapping, now, sweep,
                   transport, health, drawn, shutdown>>

\* handle_server_command; db_manager.get_user_config has no handler around
\* its sqlite3 calls, so a failing read raises through the command.
CmdServer(i) ==
    /\ IsCommand(i, Txt_server)
    /\ \E db_ok \in BOOLEAN :
          IF db_ok
          THEN LET url == get_user_key(tasks[i].user, default_a2a_server_url)
               IN tasks' = [tasks EXCEPT ![i] =
                     Finish(@, << <<IF url = default_a2a_server_url
                                    THEN "server_default" ELSE "server_custom", url>> >>)]
          ELSE tasks' = [tasks EXCEPT ![i] = Crash(@, "store_read")]
    /\ UNCHANGED <<user_a2a_clients, clients, prefs, session_mapping, now, sweep,
                   transport, health, drawn, shutdown>>

\* ---------------------------------------------------- update_user_a2a_client
IsReset(t) == Command(t.text) = Txt_resetserver

ReplyUpdated(t, url) ==
    <<IF IsReset(t) THEN "resetserver_ok" ELSE "setserver_ok", url>>
ReplyNotUpdated(t) ==
    <<IF IsReset(t) THEN "resetserver_saved_client_update_failed"
                    ELSE "setserver_saved_client_update_failed">>
ReplyNotSaved(t) ==
    <<IF IsReset(t) THEN "resetserver_error" ELSE "setserver_error">>

\* The tail of update_user_a2a_client, after the old client (if any) was
\* closed: construct, install, return True; or return False when the
\* constructor raises.  cs is the clients as the close left them.
UpdateInstall(i, url, cs) ==
    LET t == tasks[i]
    IN \/ /\ Len(cs) < MaxClients
          /\ clients' = Append(cs, A2AClient(url))
          /\ user_a2a_clients' = PoolPut(user_a2a_clients, t.user, Len(cs) + 1, now)
          /\ tasks' = [tasks EXCEPT ![i] = Finish(@, <<ReplyUpdated(t, url)>>)]
       \/ /\ clients' = cs
          /\ UNCHANGED user_a2a_clients
          /\ tasks' = [tasks EXCEPT ![i] =
                         FinishExc(@, "constructor", <<ReplyNotUpdated(t)>>)]

\* update_user_a2a_client up to its first await.
UpdateBegin(i, url) ==
    LET u == tasks[i].user
    IN /\ sweep' = Disturbed
       /\ IF PoolHas(user_a2a_clients, u)
          THEN LET old_client == PoolGet(user_a2a_clients, u).client
               IN /\ clients' = CloseStart(clients, old_client)
                  /\ tasks' = [tasks EXCEPT ![i].pc = "upd_closing",
                                            ![i].client = old_client,
                                            ![i].url = url]
                  /\ UNCHANGED user_a2a_clients
          ELSE UpdateInstall(i, url, clients)

\* "await old_client.close()" returns.
UpdateCloseReturns(i) ==
    /\ tasks[i].pc = "upd_closing"
    /\ sweep' = Disturbed
    /\ UpdateInstall(i, tasks[i].url, CloseEnd(clients, tasks[i].client))
    /\ UNCHANGED <<prefs, session_mapping, now, transport, health, drawn, shutdown>>

\* "await old_client.close()" raises: the except clause returns False.
UpdateCloseRaises(i) ==
    /\ tasks[i].pc = "upd_closing"
    /\ sweep' = Disturbed
    /\ tasks' = [tasks EXCEPT ![i] = FinishExc(@, "close", <<ReplyNotUpdated(tasks[i])>>)]
    /\ UNCHANGED <<user_a2a_clients, clients, prefs, session_mapping, now, transport, health, drawn,
                   shutdown>>

\* -------------------------- handle_setserver_command, handle_resetserver_command
\* db_manager.update_user_key, then update_user_a2a_client when it succeeded.
\* update_user_key reads the row first (get_user_config, which may raise) and
\* set_user_config returns False on any failure of the write.
SetEndpoint(i, url) ==
    \/ /\ tasks' = [tasks EXCEPT ![i] = Crash(@, "store_read")]
       /\ UNCHANGED <<user_a2a_clients, clients, prefs, sweep, drawn, shutdown>>
    \/ /\ tasks' = [tasks EXCEPT ![i] = FinishExc(@, "store_write", <<ReplyNotSaved(tasks[i])>>)]
       /\ UNCHANGED <<user_a2a_clients, clients, prefs, sweep, drawn, shutdown>>
    \/ /\ prefs' = [prefs EXCEPT ![tasks[i].user] = url]
       /\ UpdateBegin(i, url)

\* A check that accepts any "scheme://" instead of the two prefixes.
ValidScheme_AnyScheme(url) ==
    \E k \in 1..Len(url) : StartsWith(SubSeq(url, k, Len(url)), <<":", "/", "/">>)

\* new_server_url.startswith(('http://', 'https://'))
ValidScheme(url) == StartsWith(url, HttpPrefix) \/ StartsWith(url, HttpsPrefix)

CmdSetServer(i) ==
    /\ IsCommand(i, Txt_setserver)
    /\ LET args == Args(tasks[i].text)
       IN IF args = <<>>
          THEN /\ tasks' = [tasks EXCEPT ![i] = Finish(@, << <<"setserver_usage">> >>)]
               /\ UNCHANGED <<user_a2a_clients, clients, prefs, sweep, drawn, shutdown>>
          ELSE IF ~ValidScheme(args[1])
          THEN /\ tasks' = [tasks EXCEPT ![i] = Finish(@, << <<"setserver_bad_scheme">> >>)]
               /\ UNCHANGED <<user_a2a_clients, clients, prefs, sweep, drawn, shutdown>>
          ELSE SetEndpoint(i, args[1])
    /\ UNCHANGED <<session_mapping, now, transport, health, drawn, shutdown>>

CmdResetServer(i) ==
    /\ IsCommand(i, Txt_resetserver)
    /\ SetEndpoint(i, default_a2a_server_url)
    /\ UNCHANGED <<session_mapping, now, transport, health, drawn, shutdown>>


\* --------------------------------------------------------- get_user_session_id
\* str(uuid.uuid4()) as the dispatch models see it: some uuid, one value
\* standing for all of them.
AnyUuid == { <<"uuid">> }

\* str(uuid.uuid4()) with the values told apart: the values drawn are
\* distinct, so the n-th value drawn is written <<"uuid", n>>.
FreshUuids == { <<"uuid", n>> : n \in {Cardinality(drawn) + 1} \cap (1..MaxDraws) }

\* A bridge that draws a session id for every content message.
get_user_session_id_AlwaysNew(u, v) ==
    [session_mapping EXCEPT ![u] = v]

\* The mapping after get_user_session_id(u), which returns its entry for u;
\* v is the value uuid4 returns if it is called.
get_user_session_id(u, v) ==
    IF session_mapping[u] = NoSession
    THEN [session_mapping EXCEPT ![u] = v]
    ELSE session_mapping

\* ------------------------------------------- handle_text_message, content path
\* A content path that obtains the session id and goes on to the pool without
\* the "processing" notice.
ContentStartWith_NoNotice(i, values) ==
    /\ tasks[i].pc = "spawned"
    /\ ~StartsWith(tasks[i].text, <<"/">>)
    /\ \E v \in values :
          /\ session_mapping' = get_user_session_id(tasks[i].user, v)
          /\ drawn' = IF session_mapping' = session_mapping
                      THEN drawn
                      ELSE drawn \cup {v}
    /\ tasks' = [tasks EXCEPT ![i].pc = "ack_sent",
                              ![i].session_id = session_mapping'[tasks[i].user]]
    /\ UNCHANGED <<user_a2a_clients, clients, prefs, now, sweep, transport, health, shutdown>>

\* Up to the await of the "processing" send: session_id is a local of the
\* coroutine from here on.
ContentStartWith(i, values) ==
    /\ tasks[i].pc = "spawned"
    /\ ~StartsWith(tasks[i].text, <<"/">>)
    /\ \E v \in values :
          /\ session_mapping' = get_user_session_id(tasks[i].user, v)
          /\ drawn' = IF session_mapping' = session_mapping
                      THEN drawn
                      ELSE drawn \cup {v}
    /\ tasks' = [tasks EXCEPT ![i].pc = "ack_sent",
                              ![i].session_id = session_mapping'[tasks[i].user],
                              ![i].sent = Append(@, <<"processing">>)]
    /\ UNCHANGED <<user_a2a_clients, clients, prefs, now, sweep, transport, health, shutdown>>

ContentStart(i) == ContentStartWith(i, AnyUuid)

\* The text of the generic except clause of handle_text_message, str(e) in it.
ReplyError(e) == <<"error", e>>

\* task_id = str(uuid.uuid4()), then a2a_client.send_task up to the await in
\* session.post: a session whose close has begun refuses the request
\* (RuntimeError, caught by the generic except clause of handle_text_message);
\* otherwise the request is in flight.
Post(i, c, how, cs, values) ==
    \E task_id \in values :
       /\ drawn' = drawn \cup {task_id}
       /\ tasks' = [tasks EXCEPT ![i] =
             IF cs[c].state = "open"
             THEN [@ EXCEPT !.pc = "rpc", !.client = c, !.acq = how,
                            !.task_id = task_id]
             ELSE FinishExc([@ EXCEPT !.acq = how], "session_closed",
                            <<ReplyError("RuntimeError")>>)]

\* get_user_a2a_client, the branch of an existing entry, then send_task.
AcquireHitWith(i, values) ==
    /\ tasks[i].pc = "ack_sent"
    /\ PoolHas(user_a2a_clients, tasks[i].user)
    /\ LET u == tasks[i].user
           client == PoolGet(user_a2a_clients, u).client
       IN /\ user_a2a_clients' = PoolPut(user_a2a_clients, u, client, now)
          /\ Post(i, client, "hit", clients, values)
    /\ sweep' = Disturbed
    /\ UNCHANGED <<clients, prefs, session_mapping, now, transport, health, shutdown>>

AcquireHit(i) == AcquireHitWith(i, AnyUuid)

\* get_user_a2a_client, the branch that constructs, then send_task.
AcquireMissWith(i, values) ==
    /\ tasks[i].pc = "ack_sent"
    /\ ~PoolHas(user_a2a_clients, tasks[i].user)
    /\ Len(clients) < MaxClients
    /\ LET u == tasks[i].user
           server_url == get_user_key(u, default_a2a_server_url)
           cs == Append(clients, A2AClient(server_url))
       IN /\ clients' = cs
          /\ user_a2a_clients' = PoolPut(user_a2a_clients, u, Len(cs), now)
          /\ Post(i, Len(cs), "miss", cs, values)
    /\ sweep' = Disturbed
    /\ UNCHANGED <<prefs, session_mapping, now, transport, health, shutdown>>

AcquireMiss(i) == AcquireMissWith(i, AnyUuid)

\* get_user_a2a_client raises (the store read or the constructor): the generic
\* except clause of handle_text_message reports it.
AcquireRaises(i) ==
    /\ tasks[i].pc = "ack_sent"
    /\ ~PoolHas(user_a2a_clients, tasks[i].user)
    /\ \E e \in {"store_read", "constructor"} :
          tasks' = [tasks EXCEPT ![i] = FinishExc(@, e, <<ReplyError(e)>>)]
    /\ sweep' = Disturbed
    /\ UNCHANGED <<user_a2a_clients, clients, prefs, session_mapping, now, transport, health, drawn,
                   shutdown>>

\* ------------------------------------------------------------- A2AClient RPC
HTTPError(status_code) == [kind |-> "A2AClientHTTPError", status_code |-> status_code]
JSONError == [kind |-> "A2AClientJSONError", status_code |-> 0]
OtherError(class) == [kind |-> class, status_code |-> 0]
Data == [kind |-> "data", status_code |-> 0]

\* _send_request: it returns the decoded body (Data) or raises.
\* response.json() raises json.JSONDecodeError for a body that is no JSON.
send_request(o) ==
    IF o.net = "client_error" THEN HTTPError(500)
    ELSE IF o.net = "timeout" THEN HTTPError(408)
    ELSE IF o.status # 200 THEN HTTPError(o.status)
    ELSE IF o.body = "not_json" THEN JSONError
    ELSE Data

\* The file parts of a response: those of its artifacts and of its status
\* message.
FileParts(response) ==
    LET result == response.result
        all == {result.message} \cup {result.artifacts[a] : a \in 1..Len(result.artifacts)}
    IN UNION { {parts[p] : p \in {q \in 1..Len(parts) : parts[q].type = "file"}} :
               parts \in all }

\* send_task: _send_request, then response_data.get('id') and
\* SendTaskResponse(**response_data) with no handler around them.
send_task(o) ==
    LET r == send_request(o)
    IN IF r # Data THEN r
       ELSE IF o.body = "json_not_object" THEN OtherError("AttributeError")
       ELSE IF o.body = "json_schema_invalid" THEN OtherError("ValidationError")
       ELSE IF \E part \in FileParts(o.response) :
                  check_content(part.bytes, part.uri) # "ok"
       THEN OtherError("ValidationError")
       ELSE [kind |-> "response", status_code |-> 0]

\* The try block of check_health: what it returns, or the exception it
\* raises.  A body that is no JSON is answered inside (json.JSONDecodeError);
\* agent_card.get raises for a body that is JSON but no object.
check_health_try(o) ==
    IF o.net = "client_error" THEN [is_healthy |-> FALSE, exc |-> "ClientError"]
    ELSE IF o.net = "timeout" THEN [is_healthy |-> FALSE, exc |-> "TimeoutError"]
    ELSE IF o.status = 200
    THEN IF o.body = "not_json" THEN [is_healthy |-> FALSE, exc |-> "none"]
         ELSE IF o.body = "json_not_object"
         THEN [is_healthy |-> FALSE, exc |-> "AttributeError"]
         ELSE [is_healthy |-> TRUE, exc |-> "none"]
    ELSE [is_healthy |-> FALSE, exc |-> "none"]

\* A check_health without its except clause.
check_health_NoExcept(o) == check_health_try(o)

\* check_health: the except clause answers every exception with False.
check_health(o) ==
    LET r == check_health_try(o)
    IN IF r.exc = "none" THEN r ELSE [is_healthy |-> FALSE, exc |-> "none"]

\* startup: the probe of the system client, before the handler is registered.
StartupCheck(outcomes) ==
    /\ health = NoHealth
    /\ \E o \in outcomes :
          health' = [outcome |-> o, is_healthy |-> check_health(o).is_healthy,
                     exc |-> check_health(o).exc]
    /\ UNCHANGED <<user_a2a_clients, clients, prefs, session_mapping, now, tasks,
                   sweep, transport, drawn, shutdown>>

\* The except clause of handle_text_message that catches r, and what it sends.
ExceptClause(r) ==
    CASE r.kind = "A2AClientHTTPError" -> "http_error"
      [] r.kind = "A2AClientJSONError" -> "json_error"
      [] OTHER -> "error"

ReplyFor(r) ==
    CASE r.kind = "A2AClientHTTPError" -> <<"http_error", r.status_code>>
      [] r.kind = "A2AClientJSONError" -> <<"json_error">>
      [] OTHER -> ReplyError(r.kind)

Outcome(net, status, body, response) ==
    [net |-> net, status |-> status, body |-> body, response |-> response]

\* The outcomes the pool and command models draw from: one for each except
\* clause and one for each response.
CoreOutcomes ==
    { Outcome("client_error", 0, "none", NoResponse),
      Outcome("ok", 200, "not_json", NoResponse),
      Outcome("ok", 200, "json_schema_invalid", NoResponse) }
    \cup { Outcome("ok", 200, "json", r) : r \in Responses }

\* send_task raises for outcome o of outcomes: the except clause reports it.
RpcRaises(i, outcomes) ==
    /\ tasks[i].pc = "rpc"
    /\ \E o \in outcomes :
          LET r == send_task(o)
          IN /\ r.kind # "response"
             /\ tasks' = [tasks EXCEPT ![i] =
                   FinishExc([@ EXCEPT !.outcome = o], ExceptClause(r), <<ReplyFor(r)>>)]
    /\ UNCHANGED <<user_a2a_clients, clients, prefs, session_mapping, now, sweep,
                   transport, health, drawn, shutdown>>

\* send_task returns a response: process_a2a_response up to its first send.
RpcReturns(i, outcomes) ==
    /\ tasks[i].pc = "rpc"
    /\ \E o \in outcomes :
          LET units == process_a2a_response(o.response)
          IN /\ send_task(o).kind = "response"
             /\ tasks' = [tasks EXCEPT ![i] =
                   IF Len(units) <= 1
                   THEN Finish([@ EXCEPT !.outcome = o,
                                         !.pauses = process_a2a_response_sleeps(o.response)],
                               units)
                   ELSE [@ EXCEPT !.pc = "sending", !.client = NoClient,
                                  !.outcome = o,
                                  !.pauses = process_a2a_response_sleeps(o.response),
                                  !.sent = Append(@, Head(units)),
                                  !.units = Tail(units)]]
    /\ UNCHANGED <<user_a2a_clients, clients, prefs, session_mapping, now, sweep,
                   transport, health, drawn, shutdown>>

ResponseError(i) == RpcRaises(i, CoreOutcomes)

ResponseArrives(i) == RpcReturns(i, CoreOutcomes)

\* The previous send returned: the next one is issued.
SendNext(i) ==
    /\ tasks[i].pc = "sending"
    /\ tasks' = [tasks EXCEPT ![i] =
          IF Len(@.units) = 1
          THEN Finish(@, @.units)
          ELSE [@ EXCEPT !.sent = Append(@, Head(tasks[i].units)),
                         !.units = Tail(@)]]
    /\ UNCHANGED <<user_a2a_clients, clients, prefs, session_mapping, now, sweep,
                   transport, health, drawn, shutdown>>

\* send_long_text(user, text, max_length) called on its own, up to its first
\* send; SendNext issues the sends that follow.
CallSendLongText(i, texts, ceilings) ==
    /\ Free(i)
    /\ \A j \in 1..(i - 1) : ~Free(j)
    /\ \E text \in texts, ceiling \in ceilings :
          LET ts == send_long_text(text, ceiling)
              t == [IdleTask EXCEPT !.text = text, !.max_length = ceiling,
                                    !.pauses = send_long_text_sleeps(text, ceiling)]
          IN tasks' = [tasks EXCEPT ![i] =
                IF Len(ts) = 1
                THEN Finish(t, << <<"text", ts[1]>> >>)
                ELSE [t EXCEPT !.pc = "sending",
                               !.sent = << <<"text", ts[1]>> >>,
                               !.units = [k \in 1..(Len(ts) - 1) |-> <<"text", ts[k + 1]>>]]]
    /\ UNCHANGED <<user_a2a_clients, clients, prefs, session_mapping, now, sweep,
                   transport, health, drawn, shutdown>>

\* ------------------------------------------------------ DingTalkA2AClient.close
\* close is called: up to "await self.a2a_client.close()", the close of the
\* system-level client.
CloseAllBegin ==
    /\ shutdown.pc = "idle"
    /\ shutdown' = [shutdown EXCEPT !.pc = "system"]
    /\ UNCHANGED <<user_a2a_clients, clients, prefs, session_mapping, now, tasks, sweep,
                   transport, health, drawn>>

\* next() of the iterator of "for user_id, (client, _) in
\* self.user_a2a_clients.items()": RuntimeError when the dict has another
\* size than the iterator expects, the end of the loop after the last entry,
\* otherwise the next entry, whose client close starts to close.
CloseAllIterate(it, cs) ==
    IF Len(user_a2a_clients) # it.size
    THEN /\ shutdown' = [it EXCEPT !.pc = "crashed", !.closing = NoClient,
                                   !.exc = "RuntimeError"]
         /\ clients' = cs
    ELSE IF it.pos >= Len(user_a2a_clients)
    THEN /\ shutdown' = [it EXCEPT !.pc = "done", !.closing = NoClient]
         /\ clients' = cs
    ELSE LET c == user_a2a_clients[it.pos + 1].client
         IN /\ shutdown' = [it EXCEPT !.pc = "user", !.pos = @ + 1, !.closing = c]
            /\ clients' = CloseStart(cs, c)

\* The close awaited by close returns: the loop over the pool starts, or
\* goes on.
CloseAllCloseReturns ==
    /\ \/ /\ shutdown.pc = "system"
          /\ CloseAllIterate([shutdown EXCEPT !.size = Len(user_a2a_clients)], clients)
       \/ /\ shutdown.pc = "user"
          /\ CloseAllIterate(shutdown, CloseEnd(clients, shutdown.closing))
    /\ UNCHANGED <<user_a2a_clients, prefs, session_mapping, now, tasks, sweep,
                   transport, health, drawn>>

\* The close awaited by close raises: the exception leaves close.
CloseAllCloseRaises ==
    /\ shutdown.pc \in {"system", "user"}
    /\ shutdown' = [shutdown EXCEPT !.pc = "crashed", !.closing = NoClient,
                                    !.exc = "close"]
    /\ UNCHANGED <<user_a2a_clients, clients, prefs, session_mapping, now, tasks, sweep,
                   transport, health, drawn>>

CloseAll == CloseAllBegin \/ CloseAllCloseReturns \/ CloseAllCloseRaises

\* ------------------------------------------------------ request serialization
\* JSON null.
Null == [tag |-> "null", val |-> <<>>]

\* SendTaskRequest(params={"id": task_id, "session": {"id": session_id},
\* "messages": [Message(role="user", parts=[TextPart(text=user_message)])]}):
\* the fields of the request and of the models nested in it, by path; a field
\* left to its default of None is Absent.
SendTaskRequest(task_id, session_id, user_message) ==
    [jsonrpc |-> StrVal(<<"2", ".", "0">>),
     id |-> StrVal(<<"uuid">>),
     method |-> StrVal(<<"tasks/send">>),
     params_id |-> StrVal(task_id),
     params_session_id |-> StrVal(session_id),
     params_messages_0_role |-> StrVal(<<"user">>),
     params_messages_0_parts_0_type |-> StrVal(<<"text">>),
     params_messages_0_parts_0_text |-> StrVal(user_message),
     params_messages_0_parts_0_metadata |-> Absent,
     params_messages_0_metadata |-> Absent,
     params_historyLength |-> Absent,
     params_metadata |-> Absent]

\* BaseModel.model_dump(exclude_none=...): the dict of the fields, those
\* that are None left out when exclude_none is set.
model_dump(model, exclude_none) ==
    [k \in {f \in DOMAIN model : ~exclude_none \/ model[f] # Absent} |-> model[k]]

\* json.dumps of the dict (session.post(json=...)): None becomes null.
json_dumps(dict) ==
    [k \in DOMAIN dict |-> IF dict[k] = Absent THEN Null ELSE dict[k]]

\* The body _send_request posts for the request of task t:
\* json=request.model_dump().
PostedBody(t) ==
    json_dumps(model_dump(SendTaskRequest(t.task_id, t.session_id, t.text), FALSE))

\* ------------------------------------------------------------ specification
Sweep == SweepWake \/ SweepCloseReturns \/ SweepCloseRaises

Commands(i) ==
    \/ CmdHelp(i)
    \/ CmdUnknown(i)
    \/ CmdServer(i)

Endpoint(i) ==
    \/ CmdSetServer(i)
    \/ CmdResetServer(i)
    \/ UpdateCloseReturns(i)
    \/ UpdateCloseRaises(i)

Content(i) ==
    \/ ContentStart(i)
    \/ AcquireHit(i)
    \/ AcquireMiss(i)
    \/ AcquireRaises(i)
    \/ ResponseError(i)
    \/ ResponseArrives(i)
    \/ SendNext(i)

\* One user whose messages are handled one at a time, every kind of message,
\* with the sweep running in the background.
Next ==
    \/ Tick
    \/ Sweep
    \/ Receive(1, {"u1"}, Inbound)
    \/ Commands(1)
    \/ Endpoint(1)
    \/ Content(1)

Spec == Init /\ [][Next]_vars

\* One user with several messages in flight at once: content messages and
\* endpoint changes racing each other and the sweep.
PoolInbound == {Txt_content, Txt_setserver \o <<" ">> \o Url_a, Txt_resetserver}

NextPool ==
    \/ Tick
    \/ Sweep
    \/ \E i \in Slots :
          \/ Receive(i, {"u1"}, PoolInbound)
          \/ Endpoint(i)
          \/ Content(i)

SpecPool == Init /\ [][NextPool]_vars

\* Two users sending content messages, one at a time, and the sweep.
NextTwo ==
    \/ Tick
    \/ Sweep
    \/ Receive(1, Users, {Txt_content})
    \/ Content(1)

SpecTwo == Init /\ [][NextTwo]_vars


\* The callbacks the transport may deliver: every shape of callback.data.
Events ==
    { d \in [is_dict : BOOLEAN, has_text : BOOLEAN, text_is_dict : BOOLEAN,
             content : {Absent, NonStr, StrVal(Txt_content), StrVal(<<" ">>),
                        StrVal(Txt_HELP)},
             has_sender : BOOLEAN, senderStaffId : {"", "u1"},
             conversationId : {"", "cid"}, conversationType : {"", "1", "2"}] :
        /\ ~d.is_dict => d = NoData
        /\ ~d.has_text => ~d.text_is_dict
        /\ ~d.text_is_dict => d.content = Absent
        /\ ~d.has_sender => d.senderStaffId = "" }

\* One user, any callback, and the unit of work a one-to-one text spawns.
NextAck ==
    \/ Callback(1, Events)
    \/ CmdHelp(1)
    \/ Content(1)

SpecAck == Init /\ [][NextAck]_vars


\* Every outcome of a request: no connection, a timeout, a status other than
\* 200 (one of them a 2xx), and with status 200 a body that is no JSON, JSON
\* but no object, an object that is no SendTaskResponse, or a response.
Outcomes ==
    { Outcome("client_error", 0, "none", NoResponse),
      Outcome("timeout", 0, "none", NoResponse) }
    \cup { Outcome("ok", st, "text", NoResponse) : st \in {404, 500} }
    \cup { Outcome("ok", 201, "json", r) : r \in Responses }
    \cup { Outcome("ok", 200, b, NoResponse) :
             b \in {"not_json", "json_not_object", "json_schema_invalid"} }
    \cup { Outcome("ok", 200, "json", r) : r \in Responses }

\* One user sending content messages one at a time, the backend answering
\* with any outcome.
NextRpc ==
    \/ Tick
    \/ Receive(1, {"u1"}, {Txt_content})
    \/ ContentStart(1)
    \/ AcquireHit(1)
    \/ AcquireMiss(1)
    \/ RpcRaises(1, Outcomes)
    \/ RpcReturns(1, Outcomes)
    \/ SendNext(1)

SpecRpc == Init /\ [][NextRpc]_vars


\* What the probe of /.well-known/agent.json may meet.
HealthOutcomes ==
    { Outcome("client_error", 0, "none", NoResponse),
      Outcome("timeout", 0, "none", NoResponse) }
    \cup { Outcome("ok", st, b, NoResponse) :
             st \in {200, 204, 404, 500}, b \in {"json", "json_not_object", "not_json"} }

\* startup probes the backend, then the bridge serves one user's content
\* messages whatever the probe said.
NextHealth ==
    \/ StartupCheck(HealthOutcomes)
    \/ /\ health # NoHealth
       /\ \/ Receive(1, {"u1"}, {Txt_content})
          \/ Content(1)

SpecHealth == Init /\ [][NextHealth]_vars


\* Results for the interpreter: every state it distinguishes, with and
\* without artifacts, parts and a status message.
Result(state, has_message, message, artifacts) ==
    [state |-> state, message |-> message, has_message |-> has_message,
     artifacts |-> artifacts]

InterpResults ==
    { Result("completed", FALSE, <<>>, <<>>),
      Result("completed", FALSE, <<>>,
             << <<TextPart(<<"a">>), DataPart(<<"{", "}">>)>>,
                <<FilePart(<<"f">>, Absent, StrVal(<<"u">>)), TextPart(<<"b">>), TextPart(<<"a">>)>> >>),
      Result("completed", FALSE, <<>>, << <<>>, <<TextPart(<<"b">>)>> >>),
      Result("input-required", FALSE, <<>>, <<>>),
      Result("input-required", TRUE, <<>>, <<>>),
      Result("input-required", TRUE,
             <<TextPart(<<"m">>), DataPart(<<"{", "}">>), TextPart(<<"n">>),
               FilePart(<<"f">>, StrVal(<<"b">>), Absent), TextPart(<<"m">>)>>,
             << <<TextPart(<<"a">>)>> >>),
      Result("working", TRUE, <<TextPart(<<"w">>)>>, <<>>),
      Result("failed", FALSE, <<>>, <<>>) }

InterpResponses ==
    { [error |-> NoError, result |-> r] : r \in InterpResults }
    \cup { [error |-> [code |-> 400, message |-> <<"b", "a", "d">>], result |-> r] :
             r \in InterpResults \cup {NoResult} }
    \cup { NoResponse }

\* Content messages of two users, one at a time, the backend answering each
\* with one of these responses.
NextInterp ==
    \/ Receive(1, Users, {Txt_content})
    \/ ContentStart(1)
    \/ AcquireHit(1)
    \/ AcquireMiss(1)
    \/ RpcReturns(1, {Outcome("ok", 200, "json", r) : r \in InterpResponses})
    \/ SendNext(1)

SpecInterp == Init /\ [][NextInterp]_vars


\* The text of length n whose k-th character is the last digit of k.
TextOfLen(n) == [k \in 1..n |-> Digit(k % 10)]

\* The chunker called with every text up to MaxLen characters and every
\* ceiling up to MaxCeiling.
NextChunk ==
    \/ CallSendLongText(1, {TextOfLen(n) : n \in 0..MaxLen}, 1..MaxCeiling)
    \/ SendNext(1)

SpecChunk == Init /\ [][NextChunk]_vars


\* The values a str | None field of a file content takes: absent, the
\* empty str and a non-empty one.
OptionalStrs == {Absent, StrVal(<<>>), StrVal(<<"x">>)}

\* Completed tasks of one artifact with one file part, for every combination
\* of bytes and uri, with and without a name.
FileOutcomes ==
    { Outcome("ok", 200, "json",
              [error |-> NoError,
               result |-> Result("completed", FALSE, <<>>, << <<FilePart(n, b, u)>> >>)]) :
        n \in {<<>>, <<"f">>}, b \in OptionalStrs, u \in OptionalStrs }

\* Two users sending content messages one at a time, the backend answering
\* each with one of these tasks.
NextFile ==
    \/ Receive(1, Users, {Txt_content})
    \/ ContentStart(1)
    \/ AcquireHit(1)
    \/ AcquireMiss(1)
    \/ RpcRaises(1, FileOutcomes)
    \/ RpcReturns(1, FileOutcomes)

SpecFile == Init /\ [][NextFile]_vars


\* One user, content messages and endpoint resets one at a time, with the
\* clock and the sweep, every close returning.
LiveInbound == {Txt_content, Txt_resetserver}

NextLive ==
    \/ Tick
    \/ SweepWake
    \/ SweepCloseReturns
    \/ Receive(1, {"u1"}, LiveInbound)
    \/ CmdResetServer(1)
    \/ UpdateCloseReturns(1)
    \/ Content(1)

\* Time passes, asyncio.sleep(cleanup_interval) returns and a close that is
\* awaited returns.
SpecLive ==
    /\ Init
    /\ [][NextLive]_vars
    /\ WF_vars(Tick)
    /\ WF_vars(SweepWake)
    /\ WF_vars(SweepCloseReturns)
    /\ WF_vars(UpdateCloseReturns(1))


\* Two users whose messages are handled one at a time, with the uuid4 values
\* told apart: content messages, endpoint resets, the clock and the sweep.
SessionInbound == {Txt_content, Txt_resetserver}

SessionOutcomes ==
    { Outcome("client_error", 0, "none", NoResponse),
      Outcome("ok", 200, "json", NoResponse) }

NextSession ==
    \/ Tick
    \/ Sweep
    \/ Receive(1, Users, SessionInbound)
    \/ CmdResetServer(1)
    \/ UpdateCloseReturns(1)
    \/ UpdateCloseRaises(1)
    \/ ContentStartWith(1, FreshUuids)
    \/ AcquireHitWith(1, FreshUuids)
    \/ AcquireMissWith(1, FreshUuids)
    \/ AcquireRaises(1)
    \/ RpcRaises(1, SessionOutcomes)
    \/ RpcReturns(1, SessionOutcomes)

SpecSession == Init /\ [][NextSession]_vars


\* Two users sending content messages and endpoint resets one at a time, the
\* clock and the sweep, and close called at any moment.
NextClose ==
    \/ Tick
    \/ Sweep
    \/ CloseAll
    \/ Receive(1, Users, SessionInbound)
    \/ CmdResetServer(1)
    \/ UpdateCloseReturns(1)
    \/ ContentStart(1)
    \/ AcquireHit(1)
    \/ AcquireMiss(1)
    \/ RpcReturns(1, SessionOutcomes)

SpecClose == Init /\ [][NextClose]_vars

\* One user changing the endpoint, /setserver and /resetserver in flight at
\* once, with content messages and the sweep.
NextEndpoint ==
    \/ Tick
    \/ Sweep
    \/ \E i \in Slots :
          \/ Receive(i, {"u1"}, PoolInbound)
          \/ Endpoint(i)
          \/ ContentStart(i)
          \/ AcquireHit(i)
          \/ AcquireMiss(i)
          \/ RpcReturns(i, SessionOutcomes)

SpecEndpoint == Init /\ [][NextEndpoint]_vars


\* ===================================================================== claims
Last(q) == q[Len(q)]
UserOf(i) == tasks[i].user
EntryClient(p, u) == PoolGet(p, u).client

\* The endpoint the store holds for u: the preference when set, else the default.
Effective(u) == IF prefs[u] = NoPref THEN default_a2a_server_url ELSE prefs[u]

\* Task i returns from get_user_a2a_client in this step.
AcquireReturns(i) ==
    tasks[i].pc = "ack_sent" /\ tasks[i].acq = "none" /\ tasks'[i].acq # "none"

\* C1: the client get_user_a2a_client returns is never one whose close has
\* been started or completed (by update_user_a2a_client or by the sweep).
C1_AcquireNeverReturnsClosing ==
    [][\A i \in Slots :
          (AcquireReturns(i) /\ tasks'[i].acq = "hit")
          => clients[EntryClient(user_a2a_clients, UserOf(i))].state = "open"]_vars

\* Within the running sweep pass, u is collected but the second loop has not
\* come to it yet.
NotReached(u) == \E k \in 2..Len(sweep.todo) : sweep.todo[k] = u

\* Since the staleness check of the running pass, u's timestamp was refreshed.
Refreshed(u) ==
    /\ sweep.pass.active
    /\ PoolHas(sweep.pass.pool, u)
    /\ PoolHas(user_a2a_clients, u)
    /\ PoolGet(user_a2a_clients, u).last_active > PoolGet(sweep.pass.pool, u).last_active

\* C2: an entry whose timestamp get_user_a2a_client refreshed after the pass's
\* staleness check and before the pass came to it is neither closed nor
\* removed by the pass.
C2_RefreshedEntrySurvivesPass ==
    [][\A u \in Users :
          (sweep.pc = "closing" /\ NotReached(u) /\ Refreshed(u))
          => /\ PoolHas(user_a2a_clients', u)
             /\ clients'[EntryClient(user_a2a_clients, u)].state
                  = clients[EntryClient(user_a2a_clients, u)].state]_vars

\* C3: the sweep never has a close running on a client on which a send_task of
\* a content dispatch is in flight.
C3_SweepNeverClosesInFlight ==
    \A i \in Slots :
       ~(tasks[i].pc = "rpc" /\ sweep.pc = "closing" /\ sweep.closing = tasks[i].client)

\* The clients that are u's active client for somebody: the one installed in
\* the pool and the ones get_user_a2a_client returned to requests in flight.
ActiveFor(u) ==
    (IF PoolHas(user_a2a_clients, u) THEN {EntryClient(user_a2a_clients, u)} ELSE {})
    \cup {tasks[i].client : i \in {j \in Slots : tasks[j].pc = "rpc" /\ tasks[j].user = u}}

\* C4: no two distinct open clients are at once installed or returned as one
\* user's active client.
C4_SingleActiveClient ==
    \A u \in Users : \A c1, c2 \in ActiveFor(u) :
       (clients[c1].state = "open" /\ clients[c2].state = "open") => c1 = c2

\* get_user_a2a_client of task i, finding no entry, constructed exactly one
\* client, bound to url and open, installed it with the current time and
\* returned it.
MissInstalls(i, url) ==
    /\ Len(clients') = Len(clients) + 1
    /\ \A k \in 1..Len(clients) : clients'[k] = clients[k]
    /\ clients'[Len(clients')] = [url |-> url, state |-> "open"]
    /\ user_a2a_clients' =
          Append(user_a2a_clients,
                 [user |-> UserOf(i), client |-> Len(clients'), last_active |-> now])
    /\ tasks'[i].client = Len(clients')

StaleAt(e, t) == t - e.last_active > client_inactive_timeout

\* C6: a sweep pass with no pool operation running beside it ends with exactly
\* the entries removed, and their clients closed, that were stale when it began.
C6_QuietPassEvictsExactlyStale ==
    [][(sweep.pc = "closing" /\ sweep'.pc = "sleep" /\ sweep.pass.quiet)
       => /\ user_a2a_clients'
               = SelectSeq(sweep.pass.pool, LAMBDA e : ~StaleAt(e, sweep.pass.time))
          /\ \A k \in 1..Len(sweep.pass.pool) :
                StaleAt(sweep.pass.pool[k], sweep.pass.time)
                => clients'[sweep.pass.pool[k].client].state = "closed"]_vars

\* Task i ends an endpoint change in this step because the constructor of the
\* new client raised or because the store could not write the preference.
ChangeFails(i) ==
    /\ tasks[i].pc \in {"spawned", "upd_closing"}
    /\ tasks'[i].pc = "done"
    /\ tasks'[i].exc \in {"constructor", "store_write"}

\* C7: an endpoint change that fails in the constructor or in the store
\* reports the failure and leaves the user's previous entry in place, its
\* client the same and not closed by the call.
C7_FailedChangeKeepsEntry ==
    [][\A i \in Slots :
          ChangeFails(i)
          => /\ Last(tasks'[i].sent) \in {ReplyNotUpdated(tasks[i]), ReplyNotSaved(tasks[i])}
             /\ user_a2a_clients' = user_a2a_clients
             /\ (tasks[i].pc = "upd_closing" /\ sweep.closing # tasks[i].client)
                => clients'[tasks[i].client].state = "open"]_vars

\* Task j ended a /setserver that stored its url and was then told that the
\* pool update failed, and the url is still the stored preference.
StoredButNotUpdated(j) ==
    /\ tasks[j].pc = "done"
    /\ tasks[j].sent = << <<"setserver_saved_client_update_failed">> >>
    /\ prefs[UserOf(j)] = Args(tasks[j].text)[1]

\* C8: after a /setserver whose store write succeeded and whose pool update
\* failed (the user being told so), the user's next acquire returns a client
\* bound to the stored endpoint.
C8_NextAcquireUsesStoredEndpoint ==
    [][\A j \in Slots : \A i \in Slots :
          (j < i /\ StoredButNotUpdated(j) /\ UserOf(i) = UserOf(j) /\ AcquireReturns(i))
          => clients'[EntryClient(user_a2a_clients', UserOf(i))].url
               = RstripSlash(prefs[UserOf(i)])]_vars

\* C9: no exception leaves handle_text_message.
C9_NoExceptionEscapes == \A i \in Slots : tasks[i].pc # "crashed"

\* Task i runs /setserver in this step with a first argument that starts with
\* neither http:// nor https://.
BadSchemeStep(i) ==
    /\ tasks[i].pc = "spawned"
    /\ tasks'[i].pc # "spawned"
    /\ StartsWith(tasks[i].text, <<"/">>)
    /\ Command(tasks[i].text) = Txt_setserver
    /\ Args(tasks[i].text) # <<>>
    /\ ~StartsWith(Args(tasks[i].text)[1], HttpPrefix)
    /\ ~StartsWith(Args(tasks[i].text)[1], HttpsPrefix)

\* C10: /setserver with such an argument sends the scheme complaint and
\* changes neither the stored preference nor the pool nor any client.
C10_BadSchemeChangesNothing ==
    [][\A i \in Slots :
          BadSchemeStep(i)
          => /\ tasks'[i].pc = "done"
             /\ tasks'[i].sent = << <<"setserver_bad_scheme">> >>
             /\ UNCHANGED <<prefs, user_a2a_clients, clients, drawn, shutdown>>]_vars

\* The complaint was sent to a user who has a pool entry and a stored preference.
C10_Witness ==
    \E i \in Slots :
       /\ tasks[i].pc = "done"
       /\ Args(tasks[i].text) = <<Url_ftp>>
       /\ tasks[i].sent = << <<"setserver_bad_scheme">> >>
       /\ PoolHas(user_a2a_clients, UserOf(i))
       /\ prefs[UserOf(i)] = Url_a

\* Task i ends a /setserver with an http(s) url in this step, no collaborator
\* having failed on its way.
SetServerCompletes(i) ==
    /\ tasks[i].pc \in {"spawned", "upd_closing"}
    /\ tasks'[i].pc = "done"
    /\ tasks'[i].exc = "none"
    /\ StartsWith(tasks[i].text, <<"/">>)
    /\ Command(tasks[i].text) = Txt_setserver
    /\ Args(tasks[i].text) # <<>>
    /\ ValidScheme(Args(tasks[i].text)[1])

\* C11: when /setserver u completes, u is the stored preference, the user's
\* entry holds a client constructed by the command, open and bound to u, the
\* client that was installed before is closed, and the confirmation was sent.
C11_SetServerPostcondition ==
    [][\A i \in Slots :
          SetServerCompletes(i)
          => LET u == UserOf(i)
                 url == Args(tasks[i].text)[1]
             IN /\ prefs'[u] = url
                /\ PoolHas(user_a2a_clients', u)
                /\ EntryClient(user_a2a_clients', u) = Len(clients')
                /\ Len(clients') = Len(clients) + 1
                /\ clients'[Len(clients')] = [url |-> url, state |-> "open"]
                /\ PoolHas(user_a2a_clients, u)
                   => clients'[EntryClient(user_a2a_clients, u)].state = "closed"
                /\ Last(tasks'[i].sent) = <<"setserver_ok", url>>]_vars

AckReasons ==
    { "ignore: not a text message", "ignore: missing fields",
      "success (processing started)", "ignore: only supporting 1-to-1 chat",
      "error during processing" }

\* Slot i is handed a new unit of work in this step.
Spawns(i) == tasks'[i].pc = "spawned" /\ tasks'[i] # tasks[i]

\* C12: process answers every callback with an acknowledgment and raises
\* nothing to the transport; for a one-to-one text the acknowledgment is
\* returned in the step that spawns the unit of work, which has then sent
\* nothing, holds no client and has touched neither the pool nor the store.
C12_EveryEventAcknowledged ==
    [][/\ transport'.exc = "none"
       /\ transport' # NoCallback
          => transport'.ack[1] = "STATUS_OK" /\ transport'.ack[2] \in AckReasons
       /\ \A i \in Slots :
             Spawns(i)
             => /\ transport'.ack = Ack("success (processing started)")
                /\ tasks'[i].sent = <<>>
                /\ tasks'[i].client = NoClient
                /\ UNCHANGED <<user_a2a_clients, clients, prefs, session_mapping, drawn, shutdown>>]_vars

\* The acknowledgment of a one-to-one text was returned and the unit of work
\* it spawned is still waiting for the backend.
C12_Witness ==
    /\ transport.ack = Ack("success (processing started)")
    /\ transport.data.content = StrVal(Txt_content)
    /\ tasks[1].pc = "rpc"

\* The way submitTask is to end for outcome o: "transport" for a network
\* failure, a timeout or a status outside 2xx, "malformed" for a body that is
\* no JSON or does not decode to a response, "response" otherwise.
ExpectedEnd(o) ==
    IF o.net \in {"client_error", "timeout"} \/ o.status < 200 \/ o.status > 299
    THEN "transport"
    ELSE IF o.body \in {"not_json", "json_not_object", "json_schema_invalid"}
    THEN "malformed"
    ELSE "response"

\* C13: the request of task i ends as ExpectedEnd says: a response is handed
\* to the interpreter, or the HTTP clause reports a transport error (with the
\* status when there is one), or the JSON clause reports a malformed
\* response; the generic clause never handles what submitTask raised.
C13_SubmitTaskThreeWays ==
    [][\A i \in Slots :
          (tasks[i].pc = "rpc" /\ tasks'[i].pc # "rpc")
          => LET o == tasks'[i].outcome
                 t == tasks'[i]
             IN CASE ExpectedEnd(o) = "transport" ->
                       /\ t.exc = "http_error"
                       /\ o.net = "ok" => Last(t.sent) = <<"http_error", o.status>>
                  [] ExpectedEnd(o) = "malformed" ->
                       /\ t.exc = "json_error"
                       /\ Last(t.sent) = <<"json_error">>
                  [] OTHER -> t.exc = "none"]_vars

\* C14: check_health raises nothing; it returns True only for status 200 with
\* a body that parses, and False for every other status, for a body that is
\* no JSON, for a network error and for a timeout.
C14_HealthNeverRaises ==
    health # NoHealth
    => LET o == health.outcome
       IN /\ health.exc = "none"
          /\ health.is_healthy
             => o.net = "ok" /\ o.status = 200 /\ o.body \in {"json", "json_not_object"}
          /\ (o.net # "ok" \/ o.status # 200 \/ o.body = "not_json") => ~health.is_healthy

\* The probe met a body that is JSON but no object, and the bridge went on to
\* serve a content message.
C14_Witness ==
    /\ health.outcome = Outcome("ok", 200, "json_not_object", NoResponse)
    /\ ~health.is_healthy
    /\ tasks[1].pc = "rpc"

\* send_task returns to task i in this step, with the response of the outcome.
Interprets(i) ==
    /\ tasks[i].pc = "rpc"
    /\ tasks'[i].pc # "rpc"
    /\ tasks'[i].exc = "none"

ResponseOf(t) == t.outcome.response

\* C15: a response with an error object gets exactly one send, the error's
\* code and message, and nothing else, whatever the response holds besides.
C15_ErrorObjectOneUnit ==
    [][\A i \in Slots :
          (Interprets(i) /\ ResponseOf(tasks'[i]).error # NoError)
          => /\ tasks'[i].pc = "done"
             /\ tasks'[i].sent
                  = Append(tasks[i].sent,
                           <<"error_object", ResponseOf(tasks'[i]).error.code,
                             ResponseOf(tasks'[i]).error.message>>)]_vars

\* The answer to an error object that came with a completed task and its
\* artifacts.
C15_Witness ==
    /\ tasks[1].pc = "done"
    /\ ResponseOf(tasks[1]).error # NoError
    /\ ResponseOf(tasks[1]).result.state = "completed"
    /\ ResponseOf(tasks[1]).result.artifacts # <<>>
    /\ tasks[1].sent = << <<"processing">>, <<"error_object", 400, <<"b", "a", "d">> >> >>

\* Task t is a call of send_long_text.
IsChunkCall(t) == t.max_length > 0

\* ceil(l / m)
CeilDiv(l, m) == (l + m - 1) \div m

\* The length of the label of unit s: up to and including the line break.
LabelLen(s) == CHOOSE k \in 1..Len(s) : s[k] = "\n" /\ \A j \in 1..(k - 1) : s[j] # "\n"

\* The texts of the units in q, each without its label, joined.
RECURSIVE JoinPayloads(_)
JoinPayloads(q) ==
    IF q = <<>>
    THEN <<>>
    ELSE Drop(Head(q)[2], LabelLen(Head(q)[2])) \o JoinPayloads(Tail(q))

\* C16: a call that has returned sent the text unchanged as one unit when it
\* is within the ceiling; otherwise it sent ceil(L/M) units, the i-th one
\* beginning with the label [i/N], whose payloads joined in the order of the
\* sends are the text.  While it runs, the i-th send carries the label i.
C16_ChunksCoverText ==
    \A i \in Slots :
       LET t == tasks[i]
           l == Len(t.text)
           m == t.max_length
           n == CeilDiv(l, m)
       IN (IsChunkCall(t) /\ t.pc \in {"sending", "done"})
          => IF l <= m
             THEN t.pc = "done" /\ t.sent = << <<"text", t.text>> >>
             ELSE /\ Len(t.sent) + Len(t.units) = n
                  /\ \A k \in 1..Len(t.sent) : StartsWith(t.sent[k][2], Label(k, n))
                  /\ t.pc = "done"
                     => /\ Len(t.sent) = n
                        /\ JoinPayloads(t.sent) = t.text

\* A text of 9 characters was sent with ceiling 4 in three units.
C16_Witness ==
    /\ tasks[1].pc = "done"
    /\ tasks[1].max_length = 4
    /\ tasks[1].text = TextOfLen(9)
    /\ Len(tasks[1].sent) = 3

\* C17: every unit a call of send_long_text has sent, its label included, is
\* within the ceiling of the call.
C17_UnitsWithinCeiling ==
    \A i \in Slots :
       IsChunkCall(tasks[i])
       => \A k \in 1..Len(tasks[i].sent) :
             Len(tasks[i].sent[k][2]) <= tasks[i].max_length

\* The units the interpreter has sent and has still to send for the response
\* task t received: everything after the "processing" notice.
Planned(t) == Tail(t.sent) \o t.units

\* Task t received a response without error object whose result is in state s.
Answered(t, s) ==
    /\ t.pc \in {"sending", "done"}
    /\ t.exc = "none"
    /\ ~IsChunkCall(t)
    /\ ResponseOf(t).error = NoError
    /\ ResponseOf(t).result # NoResult
    /\ ResponseOf(t).result.state = s

\* The positions of the text parts of parts.
TextPositions(parts) == {k \in 1..Len(parts) : parts[k].type = "text"}

\* C18: for a result in state input-required whose status message has parts,
\* the units are the texts of its text parts, one unit each, in the order of
\* the parts, the other parts giving no unit; with no status message, or one
\* without parts, there is exactly one unit, the generic request for more
\* information.
C18_InputRequiredUnits ==
    \A i \in Slots :
       Answered(tasks[i], "input-required")
       => LET result == ResponseOf(tasks[i]).result
              parts == result.message
              idx == TextPositions(parts)
              U == Planned(tasks[i])
          IN IF result.has_message /\ parts # <<>>
             THEN /\ Len(U) = Cardinality(idx)
                  /\ \A k \in idx :
                        U[Cardinality({j \in idx : j <= k})] = <<"text", parts[k].text>>
             ELSE U = << <<"need_more_information">> >>

\* A status message of text, data and file parts, the same text twice: its
\* three texts have been sent, in order.
C18_Witness ==
    /\ Answered(tasks[1], "input-required")
    /\ tasks[1].pc = "done"
    /\ Len(ResponseOf(tasks[1]).result.message) = 5
    /\ TextPositions(ResponseOf(tasks[1]).result.message) = {1, 3, 5}
    /\ tasks[1].sent = << <<"processing">>, <<"text", <<"m">> >>, <<"text", <<"n">> >>,
                          <<"text", <<"m">> >> >>

\* The artifact and part numbers of the parts of artifacts.
PartIds(artifacts) ==
    UNION { {<<a, p>> : p \in 1..Len(artifacts[a])} : a \in 1..Len(artifacts) }

\* Part x was received before part y.
ReceivedBefore(x, y) == x[1] < y[1] \/ (x[1] = y[1] /\ x[2] < y[2])

\* The number of units of the parts in ids.
RECURSIVE CountUnits(_, _)
CountUnits(artifacts, ids) ==
    IF ids = {}
    THEN 0
    ELSE LET id == CHOOSE x \in ids : TRUE
         IN Len(PartUnits(artifacts[id[1]][id[2]]))
            + CountUnits(artifacts, ids \ {id})

\* s is t or t with one more element.
GrowsByAtMostOne(t, s) ==
    /\ Len(s) <= Len(t) + 1
    /\ Len(t) <= Len(s)
    /\ SubSeq(s, 1, Len(t)) = t

\* C19: for a completed task with artifacts, the units of the dispatch are
\* the units of its parts, artifact after artifact and, within an artifact,
\* part after part, each unit once and none missing; and every step of the
\* dispatch sends at most one unit, the next one in that order.
C19_CompletedUnitsInOrder ==
    /\ [](\A i \in Slots :
            (Answered(tasks[i], "completed")
               /\ ResponseOf(tasks[i]).result.artifacts # <<>>)
            => LET artifacts == ResponseOf(tasks[i]).result.artifacts
                   ids == PartIds(artifacts)
                   U == Planned(tasks[i])
               IN /\ Len(U) = CountUnits(artifacts, ids)
                  /\ \A id \in ids :
                        LET before == {x \in ids : ReceivedBefore(x, id)}
                            off == CountUnits(artifacts, before)
                            us == PartUnits(artifacts[id[1]][id[2]])
                        IN SubSeq(U, off + 1, off + Len(us)) = us)
    /\ [][\A i \in Slots :
            Answered(tasks'[i], "completed")
            => /\ GrowsByAtMostOne(tasks[i].sent, tasks'[i].sent)
               /\ Answered(tasks[i], "completed")
                  => Planned(tasks'[i]) = Planned(tasks[i])]_vars

\* Two artifacts, of a text and a data part and of a file and two text
\* parts, one text in both: five units sent, in the order received.
C19_Witness ==
    /\ Answered(tasks[1], "completed")
    /\ tasks[1].pc = "done"
    /\ Len(ResponseOf(tasks[1]).result.artifacts) = 2
    /\ tasks[1].sent = << <<"processing">>,
                          <<"text", <<"a">> >>,
                          <<"data_summary", <<"{", "}">> >>,
                          <<"file_info", <<"f">>, <<"u">> >>,
                          <<"text", <<"b">> >>,
                          <<"text", <<"a">> >> >>

\* Task i posts its tasks/send request in this step.
Submits(i) == tasks[i].pc = "ack_sent" /\ tasks'[i].pc = "rpc"

\* Task i runs handle_text_message for a content message up to its first
\* await in this step.
StartsContent(i) == tasks[i].pc = "spawned" /\ tasks'[i].pc = "ack_sent"

FileOf(t) == ResponseOf(t).result.artifacts[1][1]

\* Task t has constructed, or failed to construct, the response to a task of
\* one file part.
ConstructedFile(t) ==
    /\ t.pc = "done"
    /\ ResponseOf(t).result # NoResult
    /\ ResponseOf(t).result.artifacts # <<>>
    /\ Len(ResponseOf(t).result.artifacts[1]) = 1
    /\ FileOf(t).type = "file"

\* A str | None field is set when it holds a str.
IsSet(v) == v.tag = "str"

\* C21: the construction of a file content succeeds exactly when one of
\* bytes and uri is set and the other is not, whether the values set are
\* empty or not.
C21_FileContentExactlyOne ==
    \A i \in Slots :
       ConstructedFile(tasks[i])
       => (tasks[i].exc = "none"
             <=> (IsSet(FileOf(tasks[i]).bytes) # IsSet(FileOf(tasks[i]).uri)))

\* C22: the body posted for a tasks/send request holds no null: a field
\* that is absent is not among its keys.
C22_NoNullInPayload ==
    \A i \in Slots :
       tasks[i].pc = "rpc"
       => \A k \in DOMAIN PostedBody(tasks[i]) : PostedBody(tasks[i])[k] # Null

\* The close of the sweep raises in this step: the pass ends, its entry
\* still in the pool.
SweepCloseFails ==
    /\ sweep.pc = "closing"
    /\ sweep'.pc = "sleep"
    /\ user_a2a_clients' = user_a2a_clients

\* C23: when the close of one stale entry fails, the pass still evicts the
\* other entries it found stale: none of them is in the pool when the pass
\* ends.
C23_FailedCloseDoesNotBlockPass ==
    [][SweepCloseFails
       => \A k \in 2..Len(sweep.todo) : ~PoolHas(user_a2a_clients', sweep.todo[k])]_vars

\* The entry of user u holds client c, last used at time t.
EntryIs(u, c, t) ==
    /\ PoolHas(user_a2a_clients, u)
    /\ PoolGet(user_a2a_clients, u).client = c
    /\ PoolGet(user_a2a_clients, u).last_active = t

\* Client c is closed and no entry holds it.
Reclaimed(c) ==
    /\ c \in 1..Len(clients)
    /\ clients[c].state = "closed"
    /\ \A k \in 1..Len(user_a2a_clients) : user_a2a_clients[k].client # c

\* The entry of user u still holds client c and was used again after t.
UsedAgain(u, c, t) ==
    /\ PoolHas(user_a2a_clients, u)
    /\ PoolGet(user_a2a_clients, u).client = c
    /\ PoolGet(user_a2a_clients, u).last_active # t

\* The clock stops at MaxTime: an entry used at t or later is never seen
\* stale.
NeverStale(t) == t + client_inactive_timeout >= MaxTime

\* C24: an entry is eventually reclaimed, its client closed and in no entry
\* of the pool, unless it is used again first or stays in the pool with the
\* clock stopped before it is stale.
C24_EntriesEventuallyReclaimed ==
    \A u \in {"u1"}, c \in 1..MaxClients, t \in 0..MaxTime :
       EntryIs(u, c, t)
         ~> (\/ Reclaimed(c)
             \/ UsedAgain(u, c, t)
             \/ [](EntryIs(u, c, t) /\ NeverStale(t)))

\* close returns in this step.
CloseAllCompletes == shutdown.pc # "done" /\ shutdown'.pc = "done"

\* C25: close does not fail because the pool changed while it ran, and
\* when it returns no entry of the pool holds an open client.
C25_CloseAllClosesEveryEntry ==
    [][/\ shutdown'.exc # "RuntimeError"
       /\ CloseAllCompletes
          => \A k \in 1..Len(user_a2a_clients') :
                clients'[user_a2a_clients'[k].client].state # "open"]_vars

\* Task i handles a content message: its text does not begin with "/".
IsContent(t) == ~IsChunkCall(t) /\ ~StartsWith(t.text, <<"/">>)

\* The "processing" notice is the first message task t has sent.
NoticeFirst(t) == t.sent # <<>> /\ Head(t.sent) = <<"processing">>

\* C26: a content dispatch first obtains the session id of its user and sends
\* the "processing" notice, touching neither the pool nor the backend; with
\* the notice sent and nothing else it acquires the client of the user's pool
\* entry and posts the request, sending nothing; and every message after the
\* notice is sent once the request was posted (a render unit) or once the
\* acquisition or the request failed (the report of the error).  So no render
\* unit and no request comes before the notice.
C26_DispatchOrder ==
    [][\A i \in Slots :
          /\ StartsContent(i)
             => /\ tasks[i].sent = <<>>
                /\ session_mapping'[tasks[i].user] # NoSession
                /\ tasks'[i].session_id = session_mapping'[tasks[i].user]
                /\ tasks'[i].sent = << <<"processing">> >>
                /\ tasks'[i].client = NoClient
                /\ clients' = clients
                /\ user_a2a_clients' = user_a2a_clients
          /\ tasks'[i].pc = "rpc" /\ tasks[i].pc # "rpc"
             => /\ Submits(i)
                /\ tasks[i].sent = << <<"processing">> >>
                /\ tasks'[i].sent = tasks[i].sent
                /\ tasks'[i].session_id = tasks[i].session_id
                /\ PoolHas(user_a2a_clients', tasks[i].user)
                /\ tasks'[i].client = PoolGet(user_a2a_clients', tasks[i].user).client
          /\ IsContent(tasks[i]) /\ ~Free(i)
                /\ tasks'[i].sent # tasks[i].sent /\ tasks[i].sent # <<>>
             => /\ NoticeFirst(tasks[i])
                /\ tasks[i].pc \in {"ack_sent", "rpc", "sending"}
                /\ tasks[i].pc = "ack_sent" => tasks'[i].exc # "none"
                /\ tasks[i].pc = "sending" => tasks[i].outcome # NoOutcome
                /\ tasks'[i].sent[1] = <<"processing">>]_vars

\* A content dispatch went through every step: after the notice it sent the
\* render units of its response, more than one.
C26_Witness ==
    \E i \in Slots :
       /\ IsContent(tasks[i])
       /\ tasks[i].pc = "done"
       /\ tasks[i].exc = "none"
       /\ tasks[i].acq # "none"
       /\ NoticeFirst(tasks[i])
       /\ Len(tasks[i].sent) >= 3

\* The sends task t has issued from process_a2a_response, or from
\* send_long_text when that was called on its own.
RenderSends(t) ==
    IF t.pauses = <<>> THEN <<>>
    ELSE IF IsChunkCall(t) THEN t.sent
    ELSE Tail(t.sent)

\* C27: between two consecutive sends of the render units of one dispatch,
\* two units or two segments of a split text, asyncio.sleep runs: a send that
\* is followed by another one is followed by a sleep first.
C27_PauseBetweenSends ==
    \A i \in Slots :
       \A k \in 1..(Len(RenderSends(tasks[i])) - 1) : tasks[i].pauses[k]

\* The first whitespace-delimited token of text is cmd, letter case ignored.
Selects(text, cmd) == Lower(Split(Strip(text))[1]) = Lower(cmd)

\* The first element of the messages a command handler sends when it returns.
RepliesOf(cmd) ==
    CASE cmd = Txt_help -> {"help"}
      [] cmd = Txt_server -> {"server_default", "server_custom"}
      [] cmd = Txt_setserver ->
            {"setserver_usage", "setserver_bad_scheme", "setserver_ok",
             "setserver_saved_client_update_failed", "setserver_error"}
      [] cmd = Txt_resetserver ->
            {"resetserver_ok", "resetserver_saved_client_update_failed",
             "resetserver_error"}

\* In this step task i runs the handler of cmd: the handler returns after one
\* message of its own, or it is suspended in the close of the old client, or
\* (any handler but /help) an exception ends it.
HandledBy(i, cmd) ==
    \/ /\ tasks'[i].pc = "done"
       /\ Len(tasks'[i].sent) = 1
       /\ tasks'[i].sent[1][1] \in RepliesOf(cmd)
    \/ /\ tasks'[i].pc = "upd_closing"
       /\ cmd \in {Txt_setserver, Txt_resetserver}
       /\ tasks'[i].sent = <<>>
    \/ /\ tasks'[i].pc = "crashed"
       /\ cmd # Txt_help
       /\ tasks'[i].sent = <<>>

\* C28: a text that begins with "/" is handled as a command: the handler of
\* /help, /server, /setserver or /resetserver when the first token is that
\* name in any letter case, and exactly one usage hint for any other token.
\* While it is handled no session id is created, no client is acquired by
\* get_user_a2a_client and no request is posted.  Every other text is handled
\* as content.
C28_SlashIsCommand ==
    [][\A i \in Slots :
          LET t == tasks[i]
          IN /\ t.pc = "spawned" /\ tasks'[i] # t
                => /\ t.text # <<>>
                   /\ IF StartsWith(t.text, <<"/">>)
                      THEN /\ \A cmd \in command_handlers :
                                 Selects(t.text, cmd) => HandledBy(i, cmd)
                           /\ (\A cmd \in command_handlers : ~Selects(t.text, cmd))
                              => /\ tasks'[i].pc = "done"
                                 /\ Len(tasks'[i].sent) = 1
                                 /\ tasks'[i].sent[1][1] = "unknown_command"
                      ELSE StartsContent(i)
             /\ ~Free(i) /\ ~IsChunkCall(t) /\ StartsWith(t.text, <<"/">>)
                   /\ tasks'[i] # t
                => /\ session_mapping' = session_mapping
                   /\ drawn' = drawn
                   /\ tasks'[i].pc \in {"done", "crashed", "upd_closing"}
                   /\ tasks'[i].session_id = NoSession
                   /\ tasks'[i].acq = "none"
                   /\ tasks'[i].task_id = NoSession
                   /\ tasks'[i].outcome = NoOutcome]_vars

\* The text /Help was handled by the handler of /help.
C28_Witness ==
    /\ tasks[1].text = Txt_HELP
    /\ tasks[1].pc = "done"
    /\ tasks[1].sent = << <<"help">> >>

\* The pool entries that hold client c.
EntriesOf(c) == {k \in 1..Len(user_a2a_clients) : user_a2a_clients[k].client = c}

\* C29: every per-user client that was constructed and is not closed is the
\* client of exactly one entry of the pool.
C29_NoClientLeaked ==
    \A c \in 1..Len(clients) :
       clients[c].state # "closed" => Cardinality(EntriesOf(c)) = 1

\* No message of user u is being handled and the sweep is between two passes.
Quiescent(u) ==
    /\ \A i \in Slots : tasks[i].user = u => Free(i)
    /\ sweep.pc = "sleep"

\* No failure is on record for user u: the handlers of u that have ended did
\* so without an exception, raised or reported, and the client of u's entry
\* is open (an update that fails leaves in the entry the client it closed).
NoFailure(u) ==
    /\ \A i \in Slots :
          tasks[i].user = u => tasks[i].exc = "none" /\ tasks[i].pc # "crashed"
    /\ PoolHas(user_a2a_clients, u)
       => clients[PoolGet(user_a2a_clients, u).client].state = "open"

\* The client of u's entry, if u has one, is bound to u's stored endpoint, or
\* to the default one when none is stored (trailing slashes aside, which
\* A2AClient removes).
EntryMatchesPreference(u) ==
    PoolHas(user_a2a_clients, u)
    => clients[PoolGet(user_a2a_clients, u).client].url
          = RstripSlash(get_user_key(u, default_a2a_server_url))

\* C30: whenever no operation of a user is in flight and nothing has failed
\* for that user, the client of the user's pool entry is bound to the user's
\* stored endpoint, or to the default endpoint when none is stored, also
\* after /setserver and /resetserver commands that were in flight at once.
C30_EntryMatchesPreference ==
    \A u \in Users : Quiescent(u) /\ NoFailure(u) => EntryMatchesPreference(u)

\* Task i has handled a content message whose request was answered by a
\* response, and process_a2a_response has returned.
Rendered(t) ==
    /\ IsContent(t)
    /\ t.pc = "done"
    /\ t.exc = "none"
    /\ t.outcome # NoOutcome

\* C31: a content dispatch whose request returned a response has sent at
\* least one message after the "processing" notice, whatever the state of the
\* task and the shape of its artifacts and status message.
C31_ResponseAlwaysAnswered ==
    \A i \in Slots : Rendered(tasks[i]) => Len(tasks[i].sent) >= 2

====
